---- MODULE Spec2Model ----
(***************************************************************************)
(* cql-ws (src/src/lib.rs): a CQL session carried in a WebSocket tunnel.   *)
(*                                                                         *)
(* Three concurrently scheduled units are modelled, plus the peer:         *)
(*   - the caller driving Session::new / startup / query / the raw hatch,  *)
(*   - the read task  of spawn_read_write_tasks (lines 194-216),           *)
(*   - the write task of spawn_read_write_tasks (lines 219-232),           *)
(*   - the peer, which answers request frames and may also send any frame  *)
(*     on its own.                                                         *)
(* The two unbounded mpsc channels are the sequences in_rx and out_rx.     *)
(* Init is the state right after spawn_read_write_tasks returned inside    *)
(* Session::new / Session::new_tls (line 74 / 101): both tasks spawned,    *)
(* both channels empty, the caller about to run startup().                 *)
(* Two pure parts of the program are modelled as operators and exercised   *)
(* by specifications of their own: the row decoding of Session::query      *)
(* (lines 142-155, SpecRows) and the certificate verifier                  *)
(* SkipVerifyHostName::verify_server_cert (lines 262-286, SpecTls).        *)
(***************************************************************************)
EXTENDS Naturals, Sequences, FiniteSets

VARIABLES
    pc,           \* where the caller is: "tls_verify" (new_tls only), "startup_send",
                  \* "startup_recv", "Ready", "query_recv", "raw_recv", "panicked",
                  \* "Closed"
    failure,      \* why the caller panicked ("none" while it has not)
    ncalls,       \* operations the caller started on the returned Session
    session,      \* TRUE while the Session (in_rx and out_tx) has not been dropped
    out_rx,       \* outbound channel: messages sent on out_tx, not yet received
    in_rx,        \* inbound channel: messages sent on in_tx, not yet received
    read_task,    \* "running", "done" (returned) or "panicked"; "unspawned" before
    write_task,   \* "running", "done" (left the loop) or "panicked"; "unspawned" before
    net_in,       \* what read.next() will yield, in order (the peer's frames in flight)
    stream_ended, \* read.next() has yielded None
    ws_state,     \* the WebSocket's closing state as write.send sees it: "Active",
                  \* "ClosedByPeer", "ClosedByUs", "CloseAcknowledged", "Terminated"
    answered,     \* request frames the peer has answered
    unsolicited,  \* frames the peer has sent on its own
    pushed,       \* history: every message sent on out_tx
    sent,         \* history: every message of out_rx the write task sent on the socket
    close_sent,   \* result of the write task's own Close frame ("none" before it)
    data_error,   \* the send error that ended the write task at line 222 ("none")
    sending,      \* the message whose write.send(..).await (lines 222, 224) is
                  \* still pending, if any, with the stage the send is at
    received,     \* history: everything read.next() has yielded to the read task
    forwarded,    \* history: every message the read task sent on in_tx
    consumed,     \* history: every message the caller received from in_rx
    late_call,    \* history: the last query was called after a task had panicked
    rows_reply,   \* the rows body (col_specs, rows_content) of the peer's Rows replies
    result_values,\* history: the table each returned query returned
    tls           \* the certificate the peer presented and the verifier's verdict

vars == <<pc, failure, ncalls, session, out_rx, in_rx, read_task, write_task,
          net_in, stream_ended, ws_state, answered, unsolicited,
          pushed, sent, close_sent, data_error, sending, received, forwarded,
          consumed,
          late_call, rows_reply, result_values, tls>>

(***************************************************************************)
(* Bounds of the model.                                                    *)
(***************************************************************************)
MaxCalls == 2
MaxUnsolicited == 2
MaxCols == 2
MaxRows == 2

(***************************************************************************)
(* Messages.  kind is the tungstenite Message variant ("Text" stands for   *)
(* every variant that is neither Binary nor Close: Text, Ping, Pong,       *)
(* Frame), or what read.next() yields instead of a message: "Err"          *)
(* (Some(Err(_))) and "End" (None).                                        *)
(* op is the opcode / body kind the payload of a binary frame decodes to,  *)
(* "Garbage" for bytes Envelope::from_buffer rejects, "ResultTruncated"    *)
(* for a frame whose header decodes to opcode Result and whose body does   *)
(* not decode.  id is the position                                         *)
(* in `pushed` of the request a frame is or answers (0: answers nothing);  *)
(* the program never reads it, only the properties below do.               *)
(***************************************************************************)
Msg(kind, op, id) == [kind |-> kind, op |-> op, id |-> id]

ReplyOps == {"Ready", "Authenticate", "Rows", "Void", "ResultTruncated", "Garbage"}

UnsolicitedFrames ==
    {Msg("Binary", o, 0) : o \in {"Ready", "Rows"}}
        \cup {Msg(k, "None", 0) : k \in {"Close", "Text", "Err", "End"}}

RawMessages == {Msg("Binary", "Raw", 0), Msg("Close", "None", 0)}

SelectBinary(s) == SelectSeq(s, LAMBDA m : m.kind = "Binary")

IsPrefix(s, t) == Len(s) <= Len(t) /\ SubSeq(t, 1, Len(s)) = s

(***************************************************************************)
(* Session::encode (lines 161-164): an envelope becomes a binary message.  *)
(***************************************************************************)
encode(op, id) == Msg("Binary", op, id)

(***************************************************************************)
(* Session::decode (lines 166-175): the opcode of a binary message, or a   *)
(* panic on a non-binary message or on bytes from_buffer rejects.          *)
(***************************************************************************)
decode(m) ==
    IF m.kind # "Binary" THEN "panic_not_binary"
    ELSE IF m.op = "Garbage" THEN "panic_decode"
    ELSE m.op

(***************************************************************************)
(* The match of Session::startup (lines 114-120) on the decoded reply.     *)
(***************************************************************************)
StartupOutcome_AnyOpcode(m) ==
    IF decode(m) \in {"panic_not_binary", "panic_decode"} THEN decode(m)
    ELSE IF decode(m) = "Authenticate" THEN "todo"
    ELSE "Ready"

StartupOutcome_NoAuthArm(m) ==
    IF decode(m) \in {"panic_not_binary", "panic_decode"} THEN decode(m)
    ELSE IF decode(m) = "Ready" THEN "Ready"
    ELSE "panic_opcode"

StartupOutcome(m) ==
    IF decode(m) \in {"panic_not_binary", "panic_decode"} THEN decode(m)
    ELSE IF decode(m) = "Ready" THEN "Ready"
    ELSE IF decode(m) = "Authenticate" THEN "todo"
    ELSE "panic_opcode"

(***************************************************************************)
(* The if-let of Session::query (lines 137-158) on the decoded reply:      *)
(* envelope.response_body().unwrap() (line 141) panics on a body that     *)
(* does not decode, before the pattern is tried.                           *)
(***************************************************************************)
QueryOutcome_AnyResult(m) ==
    IF decode(m) \in {"panic_not_binary", "panic_decode"} THEN decode(m)
    ELSE IF decode(m) = "ResultTruncated" THEN "panic_body"
    ELSE IF decode(m) \in {"Rows", "Void"} THEN "Ready"
    ELSE "panic_not_rows"

QueryOutcome(m) ==
    IF decode(m) \in {"panic_not_binary", "panic_decode"} THEN decode(m)
    ELSE IF decode(m) = "ResultTruncated" THEN "panic_body"
    ELSE IF decode(m) = "Rows" THEN "Ready"
    ELSE "panic_not_rows"

(***************************************************************************)
(* UnboundedSender::send on an open channel (lines 110, 133, 178, 201) and *)
(* UnboundedReceiver::recv on a non-empty one (lines 112, 135, 182, 221).  *)
(***************************************************************************)
ChannelSend_Twice(q, m) == Append(Append(q, m), m)

ChannelSend(q, m) == Append(q, m)

ChannelRecv_Peek(q) == [msg |-> Head(q), rest |-> q]

ChannelRecv_Last(q) == [msg |-> q[Len(q)], rest |-> SubSeq(q, 1, Len(q) - 1)]

ChannelRecv(q) == [msg |-> Head(q), rest |-> Tail(q)]

(***************************************************************************)
(* The rows body of a Rows reply as the codec hands it to query():         *)
(* metadata.col_specs, one column type per entry, and rows_content, one    *)
(* sequence of cells per row.  A cell is null or a byte string.  The codec *)
(* reads columns_count cells per row and columns_count column              *)
(* specifications, or none if the reply carries the no-metadata flag.      *)
(***************************************************************************)
ColTypes == {"Int", "Varchar"}

Cell(null, bytes) == [null |-> null, bytes |-> bytes]

Cells == {Cell(TRUE, <<>>), Cell(FALSE, <<0, 0, 0, 1>>), Cell(FALSE, <<65>>)}

SeqsUpTo(S, n) == UNION {[1..k -> S] : k \in 0..n}

RowsBody(cs, rc, no_metadata) ==
    [col_specs |-> IF no_metadata THEN <<>> ELSE cs, rows_content |-> rc]

\* The rows body the peer serves in the specifications that do not vary it:
\* one row of an int and a text column.
FixtureReply ==
    [col_specs |-> <<"Int", "Varchar">>,
     rows_content |-> << <<Cell(FALSE, <<0, 0, 0, 1>>), Cell(FALSE, <<65>>)>> >>]

(***************************************************************************)
(* wrapper_fn(&col_spec.col_type.id) applied to a cell (lines 147-148):    *)
(* the codec's decoder for the column type.  A null cell is Null for every *)
(* type; an int is the big-endian value of the first four bytes and an     *)
(* error on fewer; a varchar is the bytes read as text.  val is a sequence *)
(* for every type: the number of an Int, the characters of a Varchar.      *)
(***************************************************************************)
Decoded(type, val) == [ok |-> TRUE, type |-> type, val |-> val]

DecodeError == [ok |-> FALSE, type |-> "Error", val |-> <<>>]

wrapper(col_type, cell) ==
    IF cell.null THEN Decoded("Null", <<>>)
    ELSE IF col_type = "Int"
         THEN IF Len(cell.bytes) < 4 THEN DecodeError
              ELSE Decoded("Int", << ((cell.bytes[1] * 256 + cell.bytes[2]) * 256
                                        + cell.bytes[3]) * 256 + cell.bytes[4] >>)
         ELSE Decoded("Varchar", cell.bytes)

(***************************************************************************)
(* The loops of Session::query (lines 142-155): for each row, in order,    *)
(* for each column specification i, in order, the value of row[i] decoded  *)
(* with the type of that specification.                                    *)
(***************************************************************************)
row_result_values_FirstType(row, col_specs) ==
    [i \in 1..Len(col_specs) |-> wrapper(col_specs[1], row[i])]

row_result_values(row, col_specs) ==
    [i \in 1..Len(col_specs) |-> wrapper(col_specs[i], row[i])]

DecodeRows(reply) ==
    [r \in 1..Len(reply.rows_content) |->
        row_result_values(reply.rows_content[r], reply.col_specs)]

\* The unwrap of line 148 panics on the first value that fails to decode.
RowsPanic(reply) ==
    \E r \in 1..Len(reply.rows_content) : \E i \in 1..Len(reply.col_specs) :
        ~DecodeRows(reply)[r][i].ok

(***************************************************************************)
(* The certificate verifier of Session::new_tls.  A certificate is what    *)
(* the standard verifier finds about its chain ("Valid" or the error) and  *)
(* whether it names the server.  WebPkiVerifier reports the chain's error  *)
(* before it looks at the name.                                            *)
(***************************************************************************)
ChainErrors ==
    {"BadEncoding", "Expired", "NotValidYet", "Revoked", "UnknownIssuer", "BadSignature"}

Certificates ==
    [chain : {"Valid"} \cup ChainErrors, name_matches : BOOLEAN, verdict : {"pending"}]

NoTls == [chain |-> "Valid", name_matches |-> TRUE, verdict |-> "none"]

WebPkiVerifier(cert) ==
    IF cert.chain # "Valid" THEN cert.chain
    ELSE IF ~cert.name_matches THEN "NotValidForName"
    ELSE "Ok"

\* The match of SkipVerifyHostName::verify_server_cert (lines 272-285) on
\* the result of the standard verifier.
verify_server_cert_AcceptExpired(result) ==
    IF result \in {"Ok", "NotValidForName", "Expired"} THEN "Ok" ELSE result

verify_server_cert(result) ==
    IF result = "Ok" THEN "Ok"
    ELSE IF result = "NotValidForName" THEN "Ok"
    ELSE result

(***************************************************************************)
(* The match of the read task (lines 198-209) on what read.next() yielded; *)
(* rx_open says whether in_rx still exists, i.e. whether in_tx.send works. *)
(***************************************************************************)
ReadOutcome_CloseIgnored(m, rx_open) ==
    IF m.kind \in {"End", "Close"} THEN "continue"
    ELSE IF m.kind = "Binary" THEN (IF rx_open THEN "forward" ELSE "panic")
    ELSE "panic"

ReadOutcome(m, rx_open) ==
    IF m.kind = "End" THEN "continue"
    ELSE IF m.kind = "Binary" THEN (IF rx_open THEN "forward" ELSE "panic")
    ELSE IF m.kind = "Close" THEN "return"
    ELSE "panic"

(***************************************************************************)
(* write.send(..).await (lines 222, 224) polls the WebSocket sink in       *)
(* stages: the sink gets ready, takes the message, then flushes it.  The   *)
(* send can stay pending before the sink takes the message ("ready") or    *)
(* after it, in the flush ("flush").  The sink decides whether it takes    *)
(* the message when it is handed over: on a WebSocket that is terminated   *)
(* (the transport has ended) it refuses every message with AlreadyClosed;  *)
(* otherwise, once a Close frame has been received or sent, with           *)
(* Protocol(SendAfterClosing).  A message it has taken goes out whatever   *)
(* is received afterwards; only the transport can still fail.              *)
(* Poll(took, r): in this poll the sink took the message or not, and the   *)
(* send ended in r or stays "Pending".  SendResults(stage, ws) are the     *)
(* polls possible for a send at `stage` ("new": first poll) with the       *)
(* WebSocket in state ws.                                                  *)
(***************************************************************************)
Poll(took, r) == [took |-> took, r |-> r]

Sending(msg, stage) == [msg |-> msg, stage |-> stage]

SendResults(stage, ws) ==
    IF stage = "flush"
    THEN {Poll(FALSE, "Ok"), Poll(FALSE, "Io")}
    ELSE (IF stage = "new" THEN {Poll(FALSE, "Pending")} ELSE {})
            \cup (IF ws = "Active"
                  THEN {Poll(TRUE, "Ok"), Poll(TRUE, "Io"), Poll(TRUE, "Pending"),
                        Poll(FALSE, "Io")}
                  ELSE IF ws = "Terminated"
                  THEN {Poll(FALSE, "AlreadyClosed")}
                  ELSE {Poll(FALSE, "SendAfterClosing")})

(***************************************************************************)
(* What read.next() (line 197) does to the WebSocket's state: a Close      *)
(* frame moves it out of the active state (or acknowledges the Close this  *)
(* side sent); the end of the stream terminates it; an error is either a   *)
(* transport error, which leaves the state, or the end of the transport    *)
(* without a closing handshake, which terminates it.                       *)
(***************************************************************************)
ReadStates(m, ws) ==
    IF m.kind = "Close"
    THEN {IF ws = "Active" THEN "ClosedByPeer"
          ELSE IF ws = "ClosedByUs" THEN "CloseAcknowledged" ELSE ws}
    ELSE IF m.kind = "End" THEN {"Terminated"}
    ELSE IF m.kind = "Err" THEN {ws, "Terminated"}
    ELSE {ws}

(***************************************************************************)
(* Line 222: write.send(ws_message).await.unwrap().                        *)
(***************************************************************************)
DataSendOutcome_Tolerant(r) ==
    IF r \in {"Ok", "SendAfterClosing"} THEN "running" ELSE "panicked"

DataSendOutcome(r) == IF r = "Ok" THEN "running" ELSE "panicked"

(***************************************************************************)
(* Lines 224-229: the match on the result of sending Close, then break.    *)
(***************************************************************************)
CloseSendOutcome_Unwrap(r) == IF r = "Ok" THEN "done" ELSE "panicked"

CloseSendOutcome(r) ==
    IF r \in {"Ok", "SendAfterClosing"} THEN "done" ELSE "panicked"

(***************************************************************************)
(* Init: lines 71-76 (98-103 for TLS) have run.                            *)
(***************************************************************************)
Init ==
    /\ pc = "startup_send"
    /\ failure = "none"
    /\ ncalls = 0
    /\ session = TRUE
    /\ out_rx = <<>>
    /\ in_rx = <<>>
    /\ read_task = "running"
    /\ write_task = "running"
    /\ net_in = <<>>
    /\ stream_ended = FALSE
    /\ ws_state = "Active"
    /\ answered = 0
    /\ unsolicited = 0
    /\ pushed = <<>>
    /\ sent = <<>>
    /\ close_sent = "none"
    /\ data_error = "none"
    /\ sending = <<>>
    /\ received = <<>>
    /\ forwarded = <<>>
    /\ consumed = <<>>
    /\ late_call = FALSE
    /\ rows_reply = FixtureReply
    /\ result_values = <<>>
    /\ tls = NoTls

ConnVars == <<rows_reply, tls>>
PeerVars == <<net_in, answered, unsolicited>>
ReaderVars == <<read_task, stream_ended, received, forwarded>>
WriterVars == <<write_task, sent, close_sent, data_error, sending>>

(***************************************************************************)
(* The caller.                                                             *)
(***************************************************************************)

\* out_tx.send(msg).unwrap(): the message is queued while out_rx exists
\* (the write task is running); otherwise send fails and unwrap panics.
\* `next` is where the caller goes after a successful send; `unwinds` says
\* whether the panic unwinds through the frame that owns the Session.
SendOrPanic_Unchecked(msg, next, unwinds) ==
    /\ out_rx' = ChannelSend(out_rx, msg)
    /\ pushed' = Append(pushed, msg)
    /\ pc' = next
    /\ UNCHANGED <<failure, session, in_rx>>

SendOrPanic(msg, next, unwinds) ==
    IF write_task = "running"
    THEN /\ out_rx' = ChannelSend(out_rx, msg)
         /\ pushed' = Append(pushed, msg)
         /\ pc' = next
         /\ UNCHANGED <<failure, session, in_rx>>
    ELSE /\ pc' = "panicked"
         /\ failure' = "send_error"
         /\ session' = IF unwinds THEN FALSE ELSE session
         /\ in_rx' = IF unwinds THEN <<>> ELSE in_rx
         /\ UNCHANGED <<out_rx, pushed>>

\* Lines 109-110 of Session::startup, called from Session::new / new_tls.
StartupSend ==
    /\ pc = "startup_send"
    /\ SendOrPanic(encode("Startup", Len(pushed) + 1), "startup_recv", TRUE)
    /\ UNCHANGED <<ncalls, consumed, ws_state>>
    /\ UNCHANGED <<late_call, result_values, ConnVars>>
    /\ UNCHANGED <<PeerVars, ReaderVars, WriterVars>>

\* in_rx.recv().await.unwrap(), then what the call does with the message.
\* recv yields a message if one is buffered; None, and unwrap panics, if the
\* channel is empty and in_tx is gone (the read task ended); it blocks
\* otherwise.  `outcome` is "Ready" if the call returns normally, else the
\* panic it ends in; `unwinds` as in SendOrPanic.
RecvThen_NeverNone(outcome, unwinds) ==
    /\ in_rx # <<>>
    /\ consumed' = Append(consumed, ChannelRecv(in_rx).msg)
    /\ in_rx' = IF outcome # "Ready" /\ unwinds THEN <<>> ELSE ChannelRecv(in_rx).rest
    /\ pc' = IF outcome = "Ready" THEN "Ready" ELSE "panicked"
    /\ failure' = IF outcome = "Ready" THEN failure ELSE outcome
    /\ session' = IF outcome # "Ready" /\ unwinds THEN FALSE ELSE session

RecvThen(outcome, unwinds) ==
    /\ in_rx # <<>> \/ read_task # "running"
    /\ consumed' = IF in_rx # <<>>
                   THEN Append(consumed, ChannelRecv(in_rx).msg) ELSE consumed
    /\ in_rx' = IF in_rx = <<>> \/ (outcome # "Ready" /\ unwinds)
                THEN <<>> ELSE ChannelRecv(in_rx).rest
    /\ pc' = IF outcome = "Ready" THEN "Ready" ELSE "panicked"
    /\ failure' = IF outcome = "Ready" THEN failure ELSE outcome
    /\ session' = IF outcome # "Ready" /\ unwinds THEN FALSE ELSE session

StartupRecv_NoWait ==
    /\ pc = "startup_recv"
    /\ pc' = "Ready"
    /\ UNCHANGED <<failure, session, in_rx, consumed>>
    /\ UNCHANGED <<ncalls, out_rx, pushed, ws_state>>
    /\ UNCHANGED <<late_call, result_values, ConnVars>>
    /\ UNCHANGED <<PeerVars, ReaderVars, WriterVars>>

\* Lines 112-120 of Session::startup.
StartupRecv ==
    /\ pc = "startup_recv"
    /\ RecvThen(IF in_rx # <<>> THEN StartupOutcome(ChannelRecv(in_rx).msg)
                ELSE "recv_none", TRUE)
    /\ UNCHANGED <<ncalls, out_rx, pushed, ws_state>>
    /\ UNCHANGED <<late_call, result_values, ConnVars>>
    /\ UNCHANGED <<PeerVars, ReaderVars, WriterVars>>

QuerySend_Twice ==
    /\ pc = "Ready"
    /\ ncalls < MaxCalls
    /\ ncalls' = ncalls + 1
    /\ write_task = "running"
    /\ out_rx' = out_rx \o <<encode("Query", Len(pushed) + 1), encode("Query", Len(pushed) + 2)>>
    /\ pushed' = pushed \o <<encode("Query", Len(pushed) + 1), encode("Query", Len(pushed) + 2)>>
    /\ pc' = "query_recv"
    /\ UNCHANGED <<failure, session, in_rx, consumed, ws_state>>
    /\ late_call' = (read_task = "panicked" \/ write_task = "panicked")
    /\ UNCHANGED <<result_values, ConnVars>>
    /\ UNCHANGED <<PeerVars, ReaderVars, WriterVars>>

\* Lines 124-133 of Session::query.
QuerySend ==
    /\ pc = "Ready"
    /\ ncalls < MaxCalls
    /\ ncalls' = ncalls + 1
    /\ SendOrPanic(encode("Query", Len(pushed) + 1), "query_recv", FALSE)
    /\ UNCHANGED <<consumed, ws_state>>
    /\ late_call' = (read_task = "panicked" \/ write_task = "panicked")
    /\ UNCHANGED <<result_values, ConnVars>>
    /\ UNCHANGED <<PeerVars, ReaderVars, WriterVars>>

QueryRecv_NoWait ==
    /\ pc = "query_recv"
    /\ pc' = "Ready"
    /\ UNCHANGED <<failure, session, in_rx, consumed>>
    /\ UNCHANGED <<ncalls, out_rx, pushed, ws_state>>
    /\ UNCHANGED <<late_call, result_values, ConnVars>>
    /\ UNCHANGED <<PeerVars, ReaderVars, WriterVars>>

\* What the query waiting in recv ends in: the outcome of the if-let on the
\* message at the head of in_rx, and for a rows body the panic of line 148
\* if one of its values does not decode.
QueryResult ==
    IF in_rx = <<>> THEN "recv_none"
    ELSE IF QueryOutcome(ChannelRecv(in_rx).msg) = "Ready" /\ RowsPanic(rows_reply)
         THEN "panic_value"
         ELSE QueryOutcome(ChannelRecv(in_rx).msg)

\* Lines 135-158 of Session::query.
QueryRecv ==
    /\ pc = "query_recv"
    /\ RecvThen(QueryResult, FALSE)
    /\ result_values' = IF QueryResult = "Ready"
                         THEN Append(result_values, DecodeRows(rows_reply))
                         ELSE result_values
    /\ UNCHANGED <<ncalls, out_rx, pushed, ws_state>>
    /\ UNCHANGED <<late_call, ConnVars>>
    /\ UNCHANGED <<PeerVars, ReaderVars, WriterVars>>

\* Session::send_raw_ws_message (lines 177-179).
SendRaw ==
    /\ pc = "Ready"
    /\ ncalls < MaxCalls
    /\ ncalls' = ncalls + 1
    /\ \E m \in RawMessages :
          SendOrPanic(Msg(m.kind, m.op, Len(pushed) + 1), "Ready", FALSE)
    /\ UNCHANGED <<consumed, ws_state>>
    /\ UNCHANGED <<late_call, result_values, ConnVars>>
    /\ UNCHANGED <<PeerVars, ReaderVars, WriterVars>>

\* Session::wait_for_raw_ws_message_resp (lines 181-183): the call is made...
WaitRaw ==
    /\ pc = "Ready"
    /\ ncalls < MaxCalls
    /\ ncalls' = ncalls + 1
    /\ pc' = "raw_recv"
    /\ UNCHANGED <<failure, session, out_rx, in_rx, pushed, consumed, ws_state>>
    /\ UNCHANGED <<late_call, result_values, ConnVars>>
    /\ UNCHANGED <<PeerVars, ReaderVars, WriterVars>>

RawOutcome(m) == "Ready"

\* ... and returns whatever message comes first, undecoded (line 182).
RawRecv ==
    /\ pc = "raw_recv"
    /\ RecvThen(IF in_rx # <<>> THEN RawOutcome(ChannelRecv(in_rx).msg)
                ELSE "recv_none", FALSE)
    /\ UNCHANGED <<ncalls, out_rx, pushed, ws_state>>
    /\ UNCHANGED <<late_call, result_values, ConnVars>>
    /\ UNCHANGED <<PeerVars, ReaderVars, WriterVars>>

\* The owner drops the Session (struct at lines 27-30): in_rx and out_tx go,
\* and with in_rx whatever was still buffered in it.
DropSession ==
    /\ session
    /\ pc \in {"Ready", "panicked"}
    /\ session' = FALSE
    /\ in_rx' = <<>>
    /\ pc' = IF pc = "Ready" THEN "Closed" ELSE pc
    /\ UNCHANGED <<failure, ncalls, out_rx, pushed, consumed, ws_state>>
    /\ UNCHANGED <<late_call, result_values, ConnVars>>
    /\ UNCHANGED <<PeerVars, ReaderVars, WriterVars>>

\* Session::new_tls up to the call of startup() (lines 81-103).  The TLS
\* handshake inside connect_async_tls_with_config calls verify_server_cert
\* on the peer's certificate.  The unwrap of the connect (line 97) panics,
\* before a Session exists, on the verifier's Err and on every other
\* failure of the connect: one before the certificate is presented (the
\* verdict stays pending) or one after it was accepted (e.g. the server
\* rejects the WebSocket upgrade).  Otherwise the channels are created and
\* the two tasks spawned.
ConnectOutcomes == {"fails_before_verify", "fails_after_verify", "connected"}

VerifyServerCert ==
    /\ pc = "tls_verify"
    /\ \E connect \in ConnectOutcomes :
          /\ tls' = IF connect = "fails_before_verify" THEN tls
                     ELSE [tls EXCEPT !.verdict = verify_server_cert(WebPkiVerifier(tls))]
          /\ IF connect = "connected" /\ verify_server_cert(WebPkiVerifier(tls)) = "Ok"
             THEN /\ pc' = "startup_send"
                  /\ session' = TRUE
                  /\ read_task' = "running"
                  /\ write_task' = "running"
                  /\ UNCHANGED failure
             ELSE /\ pc' = "panicked"
                  /\ failure' = "connect_error"
                  /\ UNCHANGED <<session, read_task, write_task>>
    /\ UNCHANGED <<ncalls, out_rx, in_rx, pushed, consumed, ws_state,
                   late_call, result_values, rows_reply>>
    /\ UNCHANGED <<PeerVars, stream_ended, received, forwarded,
                   sent, close_sent, data_error, sending>>

(***************************************************************************)
(* The read task (lines 194-216).                                          *)
(***************************************************************************)

\* The select! branch `result = read.next()` (lines 197-210).  What is read
\* here is also what moves the WebSocket out of its active state.
ReaderNext ==
    /\ read_task = "running"
    /\ net_in # <<>>
    /\ net_in' = Tail(net_in)
    /\ received' = Append(received, Head(net_in))
    /\ stream_ended' = (stream_ended \/ Head(net_in).kind = "End")
    /\ \E w \in ReadStates(Head(net_in), ws_state) : ws_state' = w
    /\ read_task' = CASE ReadOutcome(Head(net_in), session) = "return" -> "done"
                      [] ReadOutcome(Head(net_in), session) = "panic" -> "panicked"
                      [] OTHER -> "running"
    /\ IF ReadOutcome(Head(net_in), session) = "forward"
       THEN /\ in_rx' = ChannelSend(in_rx, Head(net_in))
            /\ forwarded' = Append(forwarded, Head(net_in))
       ELSE UNCHANGED <<in_rx, forwarded>>
    /\ UNCHANGED <<pc, failure, ncalls, session, out_rx, pushed, consumed>>
    /\ UNCHANGED <<late_call, result_values, ConnVars>>
    /\ UNCHANGED <<answered, unsolicited, WriterVars>>

ReaderCancelled_LoopsOn ==
    /\ read_task = "running"
    /\ ~session
    /\ UNCHANGED vars

\* The select! branch `_ = in_tx.closed()` (lines 211-213).
ReaderCancelled ==
    /\ read_task = "running"
    /\ ~session
    /\ read_task' = "done"
    /\ UNCHANGED <<pc, failure, ncalls, session, out_rx, in_rx, pushed, consumed,
                   ws_state, stream_ended, received, forwarded>>
    /\ UNCHANGED <<late_call, result_values, ConnVars>>
    /\ UNCHANGED <<PeerVars, WriterVars>>

(***************************************************************************)
(* The write task (lines 219-232).                                         *)
(***************************************************************************)

\* Lines 221-222.  out_rx.recv() hands over the next message and
\* write.send(..).await either completes in the same poll or stays pending
\* with the message taken out of the channel; a pending send completes in a
\* later step.  `stage` is where the send stands when it is polled, p what
\* the poll ends in.  A Close message the sink takes closes the WebSocket
\* from this side at once, before the flush.  When the task panics, out_rx
\* is dropped with whatever it still holds.
SendCompletes_SkipsOnError(msg, rest, stage, p) ==
    /\ write_task' = "running"
    /\ out_rx' = rest
    /\ sending' = IF p.r # "Pending" THEN <<>>
                  ELSE IF p.took \/ stage = "flush" THEN <<Sending(msg, "flush")>>
                  ELSE <<Sending(msg, "ready")>>
    /\ sent' = IF p.r = "Ok" THEN Append(sent, msg) ELSE sent
    /\ data_error' = IF p.r \in {"Ok", "Pending"} THEN data_error ELSE p.r
    /\ ws_state' = IF p.took /\ msg.kind = "Close" THEN "ClosedByUs" ELSE ws_state

SendCompletes(msg, rest, stage, p) ==
    /\ write_task' = IF p.r = "Pending" THEN "running" ELSE DataSendOutcome(p.r)
    /\ out_rx' = IF p.r = "Pending" \/ DataSendOutcome(p.r) = "running" THEN rest ELSE <<>>
    /\ sending' = IF p.r # "Pending" THEN <<>>
                  ELSE IF p.took \/ stage = "flush" THEN <<Sending(msg, "flush")>>
                  ELSE <<Sending(msg, "ready")>>
    /\ sent' = IF p.r = "Ok" THEN Append(sent, msg) ELSE sent
    /\ data_error' = IF p.r \in {"Ok", "Pending"} THEN data_error ELSE p.r
    /\ ws_state' = IF p.took /\ msg.kind = "Close" THEN "ClosedByUs" ELSE ws_state

WriterSend ==
    /\ write_task = "running"
    /\ \/ /\ sending = <<>>
          /\ out_rx # <<>>
          /\ \E p \in SendResults("new", ws_state) :
                SendCompletes(ChannelRecv(out_rx).msg, ChannelRecv(out_rx).rest, "new", p)
       \/ /\ sending # <<>>
          /\ sending[1].stage \in {"ready", "flush"}
          /\ \E p \in SendResults(sending[1].stage, ws_state) :
                SendCompletes(sending[1].msg, out_rx, sending[1].stage, p)
    /\ UNCHANGED <<pc, failure, ncalls, session, in_rx, pushed, consumed, close_sent>>
    /\ UNCHANGED <<late_call, result_values, ConnVars>>
    /\ UNCHANGED <<PeerVars, ReaderVars>>

\* Lines 223-230: recv() yields None (out_rx empty, out_tx dropped), the task
\* sends Close and leaves the loop.  The send may stay pending before the
\* sink has taken the frame ("close_ready") or, with the WebSocket closed
\* from this side, in the flush ("close_flush"), and complete in a later
\* step.
CloseCompletes(stage, p) ==
    /\ close_sent' = IF p.r = "Pending" THEN "none" ELSE p.r
    /\ write_task' = IF p.r = "Pending" THEN "running" ELSE CloseSendOutcome(p.r)
    /\ sending' = IF p.r # "Pending" THEN <<>>
                  ELSE IF p.took \/ stage = "flush"
                  THEN <<Sending(Msg("Close", "None", 0), "close_flush")>>
                  ELSE <<Sending(Msg("Close", "None", 0), "close_ready")>>
    /\ ws_state' = IF p.took THEN "ClosedByUs" ELSE ws_state

WriterClose ==
    /\ write_task = "running"
    /\ out_rx = <<>>
    /\ ~session
    /\ \/ /\ sending = <<>>
          /\ \E p \in SendResults("new", ws_state) : CloseCompletes("new", p)
       \/ /\ sending # <<>>
          /\ sending[1].stage = "close_ready"
          /\ \E p \in SendResults("ready", ws_state) : CloseCompletes("ready", p)
       \/ /\ sending # <<>>
          /\ sending[1].stage = "close_flush"
          /\ \E p \in SendResults("flush", ws_state) : CloseCompletes("flush", p)
    /\ UNCHANGED <<pc, failure, ncalls, session, out_rx, in_rx, pushed, consumed,
                   sent, data_error>>
    /\ UNCHANGED <<late_call, result_values, ConnVars>>
    /\ UNCHANGED <<PeerVars, ReaderVars>>

(***************************************************************************)
(* The peer: the source of what read.next() yields (line 197).  Nothing    *)
(* reads the socket once the read task has ended, so what the peer sends   *)
(* after that is not modelled; nothing follows the end of the stream.      *)
(***************************************************************************)
PeerCanSend ==
    /\ read_task = "running"
    /\ ~stream_ended
    /\ \A i \in 1..Len(net_in) : net_in[i].kind # "End"

\* The peer answers the oldest binary frame it has not answered yet.
PeerReply ==
    /\ PeerCanSend
    /\ answered < Len(SelectBinary(sent))
    /\ \E o \in ReplyOps :
          net_in' = Append(net_in, Msg("Binary", o, SelectBinary(sent)[answered + 1].id))
    /\ answered' = answered + 1
    /\ UNCHANGED <<pc, failure, ncalls, session, out_rx, in_rx, pushed, consumed,
                   ws_state, unsolicited>>
    /\ UNCHANGED <<late_call, result_values, ConnVars>>
    /\ UNCHANGED <<ReaderVars, WriterVars>>

\* The peer sends a frame that is not binary (Close, Text, ...), or the
\* transport fails or ends: PeerUnsolicited without its binary frames.
PeerControl ==
    /\ PeerCanSend
    /\ unsolicited < MaxUnsolicited
    /\ \E f \in {g \in UnsolicitedFrames : g.kind # "Binary"} :
          net_in' = Append(net_in, f)
    /\ unsolicited' = unsolicited + 1
    /\ UNCHANGED <<pc, failure, ncalls, session, out_rx, in_rx, pushed, consumed,
                   ws_state, answered>>
    /\ UNCHANGED <<late_call, result_values, ConnVars>>
    /\ UNCHANGED <<ReaderVars, WriterVars>>

\* PeerControl, once: the first frame that is not binary ends the read task
\* or the stream, so nothing the peer sends behind it is ever read.
PeerEnds ==
    /\ PeerCanSend
    /\ unsolicited < MaxUnsolicited
    /\ \A i \in 1..Len(net_in) : net_in[i].kind = "Binary"
    /\ \E f \in {g \in UnsolicitedFrames : g.kind # "Binary"} :
          net_in' = Append(net_in, f)
    /\ unsolicited' = unsolicited + 1
    /\ UNCHANGED <<pc, failure, ncalls, session, out_rx, in_rx, pushed, consumed,
                   ws_state, answered>>
    /\ UNCHANGED <<late_call, result_values, ConnVars>>
    /\ UNCHANGED <<ReaderVars, WriterVars>>

\* The peer sends a frame nobody asked for, or the transport fails or ends.
PeerUnsolicited ==
    /\ PeerCanSend
    /\ unsolicited < MaxUnsolicited
    /\ \E f \in UnsolicitedFrames : net_in' = Append(net_in, f)
    /\ unsolicited' = unsolicited + 1
    /\ UNCHANGED <<pc, failure, ncalls, session, out_rx, in_rx, pushed, consumed,
                   ws_state, answered>>
    /\ UNCHANGED <<late_call, result_values, ConnVars>>
    /\ UNCHANGED <<ReaderVars, WriterVars>>

(***************************************************************************)
(* Specifications.                                                         *)
(*   Spec        the caller uses connect, query and drop; any peer.        *)
(*   SpecRaw     the raw escape hatch too; the peer answers each binary    *)
(*               frame once, in order.                                     *)
(*   SpecWriter  connect, raw sends (binary and Close messages) and drop;  *)
(*               the peer answers each binary frame once, in order, and    *)
(*               sends one frame that is not binary (Close, Text, an       *)
(*               error, the end of the stream).                            *)
(*   SpecOrderly connect, query and drop; the peer does nothing but answer *)
(*               each request frame once, in order.                        *)
(*   SpecOneReply connect, query and drop; the peer sends at most one      *)
(*               binary frame per request frame, and any other frame.      *)
(*   SpecRows    one query receives a Rows reply of any rows body.         *)
(*   SpecTls     Session::new_tls with any certificate, then SpecOrderly.  *)
(*   SpecConnect connect and drop only; any peer.                          *)
(*   FairSpec    SpecWriter, with the runtime running the read task when it   *)
(*               can take a step, and the write task when it is not in a   *)
(*               pending send, can take a step and the read task is not    *)
(*               spinning.                                                 *)
(*   FairReaderSpec  SpecConnect, with the runtime running the read task   *)
(*               when it can take a step.                                  *)
(*   FairCallerSpec SpecOneReply, with the runtime waking a call that      *)
(*               waits in                                                  *)
(*               in_rx.recv() once recv can return, unless the read task   *)
(*               is spinning.                                              *)
(***************************************************************************)
Caller == StartupSend \/ StartupRecv \/ QuerySend \/ QueryRecv \/ DropSession
RawCaller == SendRaw \/ WaitRaw \/ RawRecv
Reader == ReaderNext \/ ReaderCancelled
Writer == WriterSend \/ WriterClose

Next == Caller \/ Reader \/ Writer \/ PeerReply \/ PeerUnsolicited
Spec == Init /\ [][Next]_vars

NextRaw == Caller \/ RawCaller \/ Reader \/ Writer \/ PeerReply
SpecRaw == Init /\ [][NextRaw]_vars

\* To the write task a message is a message: what it depends on is what is
\* queued, whether the Session still exists and what the read task has read.
NextWriter ==
    StartupSend \/ StartupRecv \/ SendRaw \/ DropSession \/ Reader \/ Writer
        \/ PeerReply \/ PeerEnds
SpecWriter == Init /\ [][NextWriter]_vars

NextOrderly == Caller \/ Reader \/ Writer \/ PeerReply
SpecOrderly == Init /\ [][NextOrderly]_vars

NextOneReply == Caller \/ Reader \/ Writer \/ PeerReply \/ PeerControl
SpecOneReply == Init /\ [][NextOneReply]_vars

\* A query is waiting for its reply, a Rows frame the read task has already
\* forwarded; its rows body has up to MaxCols columns and MaxRows rows.
InitRows ==
    /\ pc = "query_recv"
    /\ failure = "none"
    /\ ncalls = 1
    /\ session = TRUE
    /\ out_rx = <<>>
    /\ in_rx = <<Msg("Binary", "Rows", 2)>>
    /\ read_task = "running"
    /\ write_task = "running"
    /\ net_in = <<>>
    /\ stream_ended = FALSE
    /\ ws_state = "Active"
    /\ answered = 2
    /\ unsolicited = 0
    /\ pushed = <<encode("Startup", 1), encode("Query", 2)>>
    /\ sent = pushed
    /\ close_sent = "none"
    /\ data_error = "none"
    /\ sending = <<>>
    /\ received = <<Msg("Binary", "Ready", 1), Msg("Binary", "Rows", 2)>>
    /\ forwarded = received
    /\ consumed = <<Msg("Binary", "Ready", 1)>>
    /\ late_call = FALSE
    /\ \E columns_count \in 0..MaxCols :
          \E cs \in [1..columns_count -> ColTypes] :
             \E rc \in SeqsUpTo([1..columns_count -> Cells], MaxRows) :
                \E no_metadata \in BOOLEAN :
                   rows_reply = RowsBody(cs, rc, no_metadata)
    /\ result_values = <<>>
    /\ tls = NoTls

NextRows == QueryRecv
SpecRows == InitRows /\ [][NextRows]_vars

\* Session::new_tls is about to connect; the peer presents any certificate.
InitTls ==
    /\ pc = "tls_verify"
    /\ failure = "none"
    /\ ncalls = 0
    /\ session = FALSE
    /\ out_rx = <<>>
    /\ in_rx = <<>>
    /\ read_task = "unspawned"
    /\ write_task = "unspawned"
    /\ net_in = <<>>
    /\ stream_ended = FALSE
    /\ ws_state = "Active"
    /\ answered = 0
    /\ unsolicited = 0
    /\ pushed = <<>>
    /\ sent = <<>>
    /\ close_sent = "none"
    /\ data_error = "none"
    /\ sending = <<>>
    /\ received = <<>>
    /\ forwarded = <<>>
    /\ consumed = <<>>
    /\ late_call = FALSE
    /\ rows_reply = FixtureReply
    /\ result_values = <<>>
    /\ tls \in Certificates

NextTls == VerifyServerCert \/ NextOrderly
SpecTls == InitTls /\ [][NextTls]_vars

\* After the end of the stream read.next() yields None at once, every time:
\* the read task's loop (lines 195-215, no arm for None) then spins without
\* yielding, and on a current-thread runtime no other task is polled while
\* it does.  It stops spinning only through the cancellation branch.
Spinning == read_task = "running" /\ stream_ended

\* The runtime polls the write task when out_rx.recv() can return.  Whether
\* a send that is pending ever completes is up to the transport and the
\* peer, so no fairness is assumed for a write task in a pending send.
\* The write task never looks at what a binary frame holds or whether it
\* was asked for: its fair specification is SpecWriter's.
WriterPolled == sending = <<>> /\ Writer

FairSpec == SpecWriter /\ WF_vars(Reader) /\ WF_vars(~Spinning /\ WriterPolled)

\* A waiting call never looks at what a binary frame holds or whether it
\* was asked for: its fair specification takes the peer of SpecOneReply.
FairCallerSpec ==
    SpecOneReply /\ WF_vars(~Spinning /\ StartupRecv) /\ WF_vars(~Spinning /\ QueryRecv)

\* The read task never looks at what the caller asks for, only at whether
\* the Session still exists: its fair specification takes a caller that
\* connects and drops, and any peer.
NextConnect ==
    StartupSend \/ StartupRecv \/ DropSession \/ Reader \/ Writer
        \/ PeerReply \/ PeerUnsolicited
SpecConnect == Init /\ [][NextConnect]_vars

FairReaderSpec == SpecConnect /\ WF_vars(Reader)

(***************************************************************************)
(* Properties.                                                             *)
(***************************************************************************)

\* C1 (SpecOrderly).  Reply matching: with connect and query only and a peer
\* that answers every request once and in order, the k-th frame the caller
\* consumes (the one its k-th call consumes, the handshake being the first)
\* is the peer's reply to the k-th frame pushed, the one that call sent.
C1_ReplyMatching ==
    /\ Len(consumed) <= Len(pushed)
    /\ \A k \in 1..Len(consumed) : consumed[k].id = pushed[k].id

\* Two queries have returned after the handshake, each on a reply of its own.
C1_Witness ==
    /\ pc = "Ready"
    /\ Len(consumed) = 3
    /\ consumed[3].op = "Rows"

\* C2 (Spec).  One outstanding envelope: for any peer, the envelopes pushed
\* to the outbound channel exceed the inbound frames consumed by at most 1.
C2_OneOutstanding == Len(pushed) <= Len(consumed) + 1

\* The second query is outstanding: three envelopes pushed, two replies consumed.
C2_Witness ==
    /\ pc = "query_recv"
    /\ Len(pushed) = 3
    /\ Len(consumed) = 2

\* C3 (Spec).  A query call from Ready pushes exactly one frame as its first
\* step, without consuming; while it waits it pushes nothing more and
\* consumes at most one frame; it returns to Ready only by consuming exactly
\* one frame.  (A call whose send fails because the write task is gone
\* panics having pushed and consumed nothing.)
C3_QueryOnePushThenOneRecv ==
    [][ /\ (pc = "Ready" /\ pc' = "query_recv")
            => (Len(pushed') = Len(pushed) + 1 /\ consumed' = consumed)
        /\ (pc = "Ready" /\ pc' = "panicked")
            => (pushed' = pushed /\ consumed' = consumed)
        /\ (pc = "query_recv")
            => /\ pushed' = pushed
               /\ Len(consumed') <= Len(consumed) + 1
               /\ (pc' = "Ready" => Len(consumed') = Len(consumed) + 1)
               /\ (Len(consumed') = Len(consumed) + 1 => pc' # "query_recv")
      ]_vars

\* A query has returned: two frames pushed and two consumed (handshake, query).
C3_Witness ==
    /\ pc = "Ready"
    /\ ncalls = 1
    /\ Len(pushed) = 2
    /\ Len(consumed) = 2

\* C4 (Spec).  Connect leaves its two startup positions without panicking
\* only from the receive of startup(), into Ready, with the Session alive,
\* having pushed exactly the startup envelope and consumed exactly one
\* frame, whose opcode is Ready.
C4_ConnectOneRoundTrip ==
    [][ (pc \in {"startup_send", "startup_recv"}
            /\ pc' \notin {"startup_send", "startup_recv", "panicked"})
        => /\ pc = "startup_recv"
           /\ pc' = "Ready"
           /\ session'
           /\ pushed' = <<encode("Startup", 1)>>
           /\ Len(consumed') = 1
           /\ decode(consumed'[1]) = "Ready"
      ]_vars

\* Connect has just returned a Session.
C4_Witness ==
    /\ pc = "Ready"
    /\ ncalls = 0
    /\ session
    /\ Len(consumed) = 1

\* C5 as stated (Spec): the first frame pushed is the startup envelope, and
\* whenever a query envelope has been pushed, the first frame consumed is a
\* Ready frame that answers the startup envelope.
C5_AsStated ==
    /\ \A i \in 1..Len(pushed) : (pushed[i].op = "Startup") <=> (i = 1)
    /\ \A i \in 1..Len(pushed) :
          pushed[i].op = "Query"
              => (Len(consumed) >= 1 /\ decode(consumed[1]) = "Ready"
                    /\ consumed[1].id = pushed[1].id)

\* C5 amended (Spec).  The first frame pushed is the startup envelope, it is
\* the only startup envelope, and whenever a query envelope has been pushed,
\* the first frame consumed (the one the handshake took) has opcode Ready;
\* it need not answer the startup envelope.
C5_QueryOnlyFromReady ==
    /\ \A i \in 1..Len(pushed) : (pushed[i].op = "Startup") <=> (i = 1)
    /\ \A i \in 1..Len(pushed) :
          pushed[i].op = "Query"
              => (Len(consumed) >= 1 /\ decode(consumed[1]) = "Ready")

\* A query envelope has been pushed and sent on the socket.
C5_Witness ==
    /\ Len(sent) >= 2
    /\ sent[2].op = "Query"

\* C6 (SpecRaw).  Writer ordering: the messages of the outbound channel that
\* the write task has sent on the socket are a prefix of the messages pushed
\* to that channel.  (The Close frame the write task itself sends when the
\* channel is closed never was in the channel; close_sent records it.)
C6_WriterOrder == IsPrefix(sent, pushed)

\* The write task has sent two messages and a third, of another kind than
\* the second, is waiting behind them.
C6_Witness ==
    /\ Len(sent) = 2
    /\ Len(out_rx) = 1
    /\ out_rx[1].kind # sent[2].kind

\* C7 (Spec).  Reader forwarding: what the read task has put on the inbound
\* channel is exactly the binary frames it has received, in arrival order,
\* and nothing but binary frames is forwarded or consumed.
C7_ReaderForwarding ==
    /\ forwarded = SelectBinary(received)
    /\ \A i \in 1..Len(consumed) : consumed[i].kind = "Binary"

\* C8 (Spec).  A Close frame is the last thing the read task receives and the
\* task has then returned, so nothing that arrives after it is forwarded;
\* a frame that is neither binary nor close, or a transport error, is the
\* last thing the read task receives and the task has then panicked.
C8_ReaderReaction ==
    \A i \in 1..Len(received) :
        /\ received[i].kind = "Close"
              => (i = Len(received) /\ read_task = "done")
        /\ received[i].kind \in {"Text", "Err"}
              => (i = Len(received) /\ read_task = "panicked")
        /\ received[i].kind = "Close"
              => IsPrefix(forwarded, SelectBinary(SubSeq(received, 1, i - 1)))

\* The read task returned on a Close frame with a binary frame behind it.
C8_Witness ==
    /\ read_task = "done"
    /\ received # <<>>
    /\ received[Len(received)].kind = "Close"
    /\ net_in # <<>>
    /\ net_in[1].kind = "Binary"

\* C9 as stated (FairSpec), in the form a finite run refutes: a write task
\* that ends after the Session was dropped ends having attempted to send a
\* Close frame.
C9_AsStated ==
    [][ (~session /\ write_task = "running" /\ write_task' # "running")
            => close_sent' # "none" ]_vars

\* The write task is in a send that has not completed.
SendPending == write_task = "running" /\ sending # <<>>

\* C9 amended (FairSpec).  Once the Session is dropped the write task
\* eventually ends, unless it stays for ever in a send that never completes;
\* it ends either abnormally on a failed send of a message still queued,
\* without a Close frame, or by attempting to send a Close frame as its last
\* step.  It leaves the loop normally only after that attempt, with the
\* channel drained.  If the peer's Close has been received when the attempt
\* is made, the attempt fails with SendAfterClosing and the write task still
\* ends normally; if the transport has ended, it fails with AlreadyClosed
\* and the write task ends abnormally.
C9_WriterShutdown ==
    /\ [](~session
            => <>((write_task # "running"
                     /\ (close_sent # "none" \/ data_error # "none"))
                  \/ []SendPending))
    /\ [](write_task = "done"
            => (~session /\ out_rx = <<>> /\ close_sent \in {"Ok", "SendAfterClosing"}))
    /\ [](close_sent # "none" => write_task # "running")
    /\ [][ (close_sent = "none" /\ close_sent' # "none" /\ ws_state = "ClosedByPeer")
            => (close_sent' = "SendAfterClosing" /\ write_task' = "done") ]_vars
    /\ [][ (close_sent = "none" /\ close_sent' # "none" /\ ws_state = "Terminated"
              /\ (sending = <<>> \/ sending[1].stage = "close_ready"))
            => (close_sent' = "AlreadyClosed" /\ write_task' = "panicked") ]_vars

\* The peer closed first; the write task's Close was refused and it ended normally.
C9_Witness ==
    /\ ws_state = "ClosedByPeer"
    /\ close_sent = "SendAfterClosing"
    /\ write_task = "done"

\* C10 as stated (SpecWriter): no SendAfterClosing, on a queued message or on the
\* final Close frame, ends the write task abnormally.
C10_AsStated ==
    ~(write_task = "panicked" /\ "SendAfterClosing" \in {data_error, close_sent})

\* C10 amended (SpecWriter).  SendAfterClosing on the final Close frame never
\* ends the write task abnormally; any other failure of that send does, and
\* so does any send failure on a queued message, SendAfterClosing included.
C10_PeerCloseRace ==
    /\ close_sent = "SendAfterClosing" => write_task = "done"
    /\ close_sent \in {"Io", "AlreadyClosed"} => write_task = "panicked"
    /\ data_error # "none" => write_task = "panicked"

\* A queued message was refused with SendAfterClosing after the peer closed.
C10_Witness ==
    /\ data_error = "SendAfterClosing"
    /\ ws_state = "ClosedByPeer"
    /\ write_task = "panicked"

\* C11 (FairReaderSpec).  Reader cancellation: once the Session is dropped the
\* read task eventually ends, whatever is still arriving on the socket.
C11_ReaderCancellation == (~session) ~> (read_task # "running")

\* The stream ended without a Close frame, the read task kept looping, and
\* it returned once the Session was gone.
C11_Witness ==
    /\ ~session
    /\ stream_ended
    /\ read_task = "done"

\* C13 (Spec).  Handshake outcomes: the frame the handshake consumes decides
\* the result.  Ready: the caller is in Ready with its Session.
\* Authenticate: the not-implemented panic.  Any other opcode: the
\* protocol-violation panic, which the failure value tells apart from the
\* first.  Both panics leave the caller without a Session, and so does the
\* panic on a reply that does not decode.
C13_HandshakeOutcomes ==
    [][ (pc = "startup_recv" /\ in_rx # <<>> /\ pc' # pc)
        => /\ consumed' = Append(consumed, Head(in_rx))
           /\ decode(Head(in_rx)) = "Ready"
                 => (pc' = "Ready" /\ session' /\ failure' = "none")
           /\ decode(Head(in_rx)) = "Authenticate"
                 => (pc' = "panicked" /\ failure' = "todo" /\ ~session')
           /\ decode(Head(in_rx)) \in {"Rows", "Void", "ResultTruncated"}
                 => (pc' = "panicked" /\ failure' = "panic_opcode" /\ ~session')
           /\ decode(Head(in_rx)) = "panic_decode"
                 => (pc' = "panicked" /\ failure' = "panic_decode" /\ ~session')
      ]_vars

\* The handshake ended in the not-implemented panic.
C13_Witness ==
    /\ pc = "panicked"
    /\ failure = "todo"
    /\ ~session

\* C14 (Spec).  Query outcome by reply kind: a query returns to Ready only
\* on a reply that decodes to a rows result; on a reply of any other kind
\* it panics and returns nothing.
C14_QueryOutcomeByKind ==
    [][ (pc = "query_recv" /\ pc' # pc)
        => /\ pc' = "Ready" => (in_rx # <<>> /\ decode(Head(in_rx)) = "Rows")
           /\ (in_rx # <<>> /\ decode(Head(in_rx)) # "Rows")
                 => (pc' = "panicked" /\ failure' # "none")
      ]_vars

\* A query ended in a panic on a reply that is no rows result.
C14_Witness ==
    /\ pc = "panicked"
    /\ failure = "panic_not_rows"
    /\ Len(consumed) >= 2

\* C17 (SpecOneReply).  With connect and query only and a peer that sends at
\* most one binary frame per request frame, the outbound channel and the
\* inbound channel hold at most one message each.
C17_QueuesAtMostOne ==
    /\ Len(out_rx) <= 1
    /\ Len(in_rx) <= 1

\* The reply to the second query is buffered in the inbound channel.
C17_Witness ==
    /\ pc = "query_recv"
    /\ Len(pushed) = 3
    /\ Len(in_rx) = 1

\* C18 (Spec).  Dropping the Session never makes the read task end
\* abnormally: the read task never panics on a binary frame.
C18_DropNeverPanicsReader ==
    (read_task = "panicked" /\ received # <<>>)
        => received[Len(received)].kind # "Binary"

\* C20 (FairCallerSpec).  A call waiting on the empty inbound channel after
\* the read task has ended eventually panics; it panics on recv's None only
\* when the channel is empty, so a buffered frame is delivered first.
C20_WaiterWoken ==
    /\ (pc \in {"startup_recv", "query_recv"} /\ read_task # "running" /\ in_rx = <<>>)
          ~> (pc = "panicked")
    /\ [][ (pc \in {"startup_recv", "query_recv"} /\ pc' # pc)
            => /\ in_rx # <<>> => (consumed' = Append(consumed, Head(in_rx))
                                    /\ failure' # "recv_none")
               /\ in_rx = <<>> => (read_task # "running" /\ pc' = "panicked"
                                    /\ failure' = "recv_none")
         ]_vars

\* A call was woken by the end of the read task and panicked on None.
C20_Witness ==
    /\ pc = "panicked"
    /\ failure = "recv_none"
    /\ read_task # "running"

\* C12 as stated (Spec): a query called after the read task or the write
\* task has panicked never returns.
C12_AsStated == ~(late_call /\ pc = "Ready")

\* C12 amended (Spec).  A query called after the write task has panicked
\* panics on its send.  A query called after the read task has panicked
\* returns a table only by taking a Rows frame that was still buffered in
\* the inbound channel; with the channel empty it panics.
C12_FailFast ==
    /\ [][ (ncalls' # ncalls /\ write_task = "panicked")
            => (pc' = "panicked" /\ failure' = "send_error") ]_vars
    /\ [](late_call /\ pc = "query_recv" => read_task = "panicked")
    /\ [][ (late_call /\ pc = "query_recv" /\ pc' # pc)
            => /\ pc' = "Ready" => (in_rx # <<>> /\ decode(Head(in_rx)) = "Rows")
               /\ in_rx = <<>> => (pc' = "panicked" /\ failure' = "recv_none")
         ]_vars

\* A query called after the read task had panicked returned a table.
C12_Witness ==
    /\ late_call
    /\ pc = "Ready"
    /\ read_task = "panicked"
    /\ result_values # <<>>

\* C15 (SpecRows).  Row decoding: the table a query returns has the rows of
\* the reply, in order; each has one value per column specification, in
\* order, the value of the cell at that position decoded with the type of
\* that specification.  A query whose reply holds a value that does not
\* decode returns nothing.
C15_RowDecoding ==
    /\ Len(result_values) <= 1
    /\ \A t \in 1..Len(result_values) :
          /\ pc = "Ready"
          /\ Len(result_values[t]) = Len(rows_reply.rows_content)
          /\ \A r \in 1..Len(rows_reply.rows_content) :
                /\ Len(result_values[t][r]) = Len(rows_reply.col_specs)
                /\ \A i \in 1..Len(rows_reply.col_specs) :
                      /\ result_values[t][r][i].ok
                      /\ result_values[t][r][i]
                            = wrapper(rows_reply.col_specs[i], rows_reply.rows_content[r][i])
    /\ pc = "Ready" => Len(result_values) = 1
    /\ pc = "panicked" => failure = "panic_value"

\* A query returned a table of two rows and two columns of different types.
C15_Witness ==
    /\ pc = "Ready"
    /\ Len(result_values) = 1
    /\ Len(result_values[1]) = 2
    /\ rows_reply.col_specs = <<"Varchar", "Int">>
    /\ result_values[1][2][2].type = "Int"
    /\ result_values[1][1][1].type = "Varchar"

\* C16 (SpecTls).  Trust policy: verify_server_cert returns Ok exactly when
\* the standard verifier returns Ok or the name-mismatch error, and returns
\* every other error unchanged.  So a valid chain is accepted whether or
\* not the name matches, and an invalid chain is rejected with its error
\* whether or not the name matches, an expired certificate included.
C16_TrustPolicy ==
    tls.verdict \notin {"none", "pending"}
       => /\ tls.verdict = "Ok" <=> WebPkiVerifier(tls) \in {"Ok", "NotValidForName"}
          /\ tls.verdict # "Ok" => tls.verdict = WebPkiVerifier(tls)
          /\ tls.chain = "Valid" => tls.verdict = "Ok"
          /\ tls.chain # "Valid" => (tls.verdict = tls.chain /\ pc = "panicked" /\ ~session)
          /\ (tls.chain = "Expired" /\ tls.name_matches) => tls.verdict = "Expired"

\* A session was established on a valid chain with a mismatched name.
C16_Witness ==
    /\ tls.chain = "Valid"
    /\ ~tls.name_matches
    /\ tls.verdict = "Ok"
    /\ pc = "Ready"

\* C19 as stated (SpecWriter), in the form a finite run refutes: a write task
\* that ends after the Session was dropped ends having sent every message
\* pushed and then attempted its Close frame.
C19_AsStated ==
    [][ (~session /\ write_task = "running" /\ write_task' # "running")
            => (sent' = pushed /\ close_sent' # "none") ]_vars

\* The messages handed to the write task that it has still to send: the
\* one whose send is pending, if any, then those of the channel.
Unsent ==
    (IF sending # <<>> /\ sending[1].stage \in {"ready", "flush"}
     THEN <<sending[1].msg>> ELSE <<>>) \o out_rx

\* The send of the write task's own Close frame has not completed.
ClosePending ==
    sending # <<>> /\ sending[1].stage \in {"close_ready", "close_flush"}

\* C19 amended (SpecWriter).  After the Session is dropped the write task sends
\* the messages still queued (the one whose send is pending, if any, then
\* those of the channel) in order, until a send fails, which ends it
\* abnormally with the remaining messages and the Close frame unsent.  It
\* attempts the Close frame only when every message pushed has been sent, in
\* the order pushed; the attempt is made at most once and nothing is sent
\* after it.
C19_DrainBeforeClose ==
    /\ [](IsPrefix(sent, pushed))
    /\ []((close_sent # "none" \/ ClosePending)
            => (~session /\ sent = pushed /\ Unsent = <<>>))
    /\ [](close_sent # "none" => (sending = <<>> /\ write_task # "running"))
    /\ [][ (close_sent # "none" \/ ClosePending)
            => (sent' = sent /\ (close_sent # "none" => close_sent' = close_sent)) ]_vars
    /\ [][ (~session /\ sent' # sent)
            => (sent' = Append(sent, Head(Unsent))
                  /\ Unsent' = Tail(Unsent)
                  /\ close_sent' = "none") ]_vars
    /\ [][ (~session /\ Unsent # <<>>
              /\ write_task = "running" /\ write_task' # "running")
            => (write_task' = "panicked" /\ data_error' # "none" /\ close_sent' = "none") ]_vars

\* The Session was dropped with two messages still queued and the peer's
\* Close already read: the write task is about to be refused the first.
C19_Witness ==
    /\ ~session
    /\ pc = "Closed"
    /\ write_task = "running"
    /\ Len(out_rx) = 2
    /\ ws_state = "ClosedByPeer"

====
